---- MODULE Spec2Model ----
(***************************************************************************)
(* The todos application of homework/module_01: one entity, Todo, behind   *)
(* five views (list, create, update, delete, toggle_resolved).             *)
(*                                                                         *)
(* Text values (title, description) are sequences of one-character         *)
(* strings, so that the form's whitespace stripping and length check are   *)
(* computed and not assumed.  POST data is a record of fields, each either *)
(* omitted or present with the submitted text.                             *)
(*                                                                         *)
(* Spec     : requests are served one at a time (the test client).         *)
(* ConcSpec : NumWorkers workers serve requests whose database read and    *)
(*            database write are separate steps that interleave.           *)
(***************************************************************************)
EXTENDS Integers, Sequences, FiniteSets, TLC

VARIABLES
    todos,      \* the todos table: primary key -> row
    nextId,     \* the next value of the auto-increment primary key
    clock,      \* number of rows inserted so far: the time of the last INSERT
    last,       \* the last request served and its response (sequential runs)
    created,    \* history: primary keys in the order the create view made them
    inflight,   \* ConcSpec: per worker, the request it is in the middle of
    expected,   \* ConcSpec history: ids whose completed toggles are odd in number
    touched,    \* ConcSpec history: ids an update or delete request has read
    deleted     \* ConcSpec history: ids whose delete POST has completed

vars == <<todos, nextId, clock, last, created, inflight, expected, touched, deleted>>

\* ------------------------------------------------------------------ bounds

\* Rows ever inserted (caps the primary-key counter and the clock).
MaxInserts == 2

\* Workers serving requests at the same time in ConcSpec.
NumWorkers == 2

\* ------------------------------------------------------- the Todo model

\* max_length of Todo.title ("short text"), scaled down to the model's strings.
TitleMaxLength == 2

\* The NULL of a nullable column.
Null == "NULL"

\* A Todo() before any form field is applied: the model's field defaults.
NewTodo ==
    [title |-> <<>>, description |-> <<>>, due_date |-> Null,
     resolved |-> FALSE, created_at |-> 0]

\* Placeholder of the same shape, for "no object".
NoTodo == NewTodo

\* Whether Todo.description declares an explicit default is not visible from
\* the views; it decides what an update does with an omitted description.
DescriptionHasDefault == {TRUE, FALSE}

\* ------------------------------------------------------------ POST data

Omitted == [present |-> FALSE, value |-> <<>>]
OmittedToken == [present |-> FALSE, value |-> ""]
Field(v) == [present |-> TRUE, value |-> v]

Data(title, description, due_date, resolved) ==
    [title |-> title, description |-> description,
     due_date |-> due_date, resolved |-> resolved]

\* The POST bodies tried: those of the tests (with their values shortened) and
\* the ones a form field's cleaning treats differently.
PostData ==
    { Data(Omitted, Omitted, OmittedToken, OmittedToken),
      Data(Omitted, Field(<<"d">>), OmittedToken, OmittedToken),
      Data(Field(<<"a">>), Omitted, OmittedToken, OmittedToken),
      Data(Field(<<"a">>), Field(<<" ", "d">>), Field("01/05/2025"), Field("True")),
      Data(Field(<<"b">>), Field(<<"d">>), OmittedToken, Field("False")),
      Data(Field(<<" ">>), Field(<<"d">>), OmittedToken, OmittedToken),
      Data(Field(<<>>), Omitted, Field(""), OmittedToken),
      Data(Field(<<" ", "b">>), Omitted, Field(""), Field("True")),
      Data(Field(<<"a", "a", "a">>), Omitted, OmittedToken, OmittedToken),
      Data(Field(<<"b">>), Omitted, Field("someday"), OmittedToken) }

NoData ==
    [title |-> Omitted, description |-> Omitted,
     due_date |-> OmittedToken, resolved |-> OmittedToken]

\* Primary keys a URL may carry: every key ever issued and one never issued.
Pks == 1..(MaxInserts + 1)

\* ------------------------------------------------- form field cleaning

RECURSIVE LStrip(_)
LStrip(s) ==
    IF s = <<>> THEN s
    ELSE IF Head(s) = " " THEN LStrip(Tail(s)) ELSE s

RECURSIVE RStrip(_)
RStrip(s) ==
    IF s = <<>> THEN s
    ELSE IF s[Len(s)] = " " THEN RStrip(SubSeq(s, 1, Len(s) - 1)) ELSE s

\* str.strip(), applied by a form CharField before validation.
Strip(s) == RStrip(LStrip(s))

\* The cleaned value of a text field: '' when omitted, else the stripped text.
CleanText(f) == IF f.present THEN Strip(f.value) ELSE <<>>

\* title is required and bounded: checked on the stripped value.
TitleValid(data) ==
    /\ CleanText(data.title) # <<>>
    /\ Len(CleanText(data.title)) <= TitleMaxLength

\* The date formats the form's DateField accepts, and the date each denotes.
ParseDate(s) ==
    CASE s = "2025-01-05" -> "2025-01-05"
      [] s = "01/05/2025" -> "2025-01-05"
      [] OTHER -> "invalid"

DueDateValid(data) ==
    \/ ~data.due_date.present
    \/ data.due_date.value = ""
    \/ ParseDate(data.due_date.value) # "invalid"

CleanDueDate(data) ==
    IF ~data.due_date.present \/ data.due_date.value = "" THEN Null
    ELSE ParseDate(data.due_date.value)

\* A checkbox: absent or 'False' is false, any other submitted text is true.
CleanResolved(data) ==
    /\ data.resolved.present
    /\ data.resolved.value \notin {"False", "false", ""}

\* ------------------------------------------------------- the views' parts

\* Variant: title left out of the create form's fields, so never validated.
CreateFormValid_TitleNotChecked(data) == DueDateValid(data)

\* TodoCreateView.fields: the create form has title, description, due_date
\* (no resolved: the row keeps the model default).
CreateFormValid(data) == TitleValid(data) /\ DueDateValid(data)

\* Variant: resolved listed among the create form's fields.
CreateFormInstance_WithResolved(data) ==
    [NewTodo EXCEPT !.title = CleanText(data.title),
                    !.description = CleanText(data.description),
                    !.due_date = CleanDueDate(data),
                    !.resolved = CleanResolved(data)]

CreateFormInstance(data) ==
    [NewTodo EXCEPT !.title = CleanText(data.title),
                    !.description = CleanText(data.description),
                    !.due_date = CleanDueDate(data)]

\* TodoUpdateView.fields: title, description, due_date, resolved.
UpdateFormValid(data) == TitleValid(data) /\ DueDateValid(data)

\* Variant: resolved left out of the update form's fields.
UpdateFormInstance_WithoutResolved(obj, data, keep) ==
    [obj EXCEPT !.title = CleanText(data.title),
                !.description =
                    IF ~data.description.present /\ keep THEN @
                    ELSE CleanText(data.description),
                !.due_date = CleanDueDate(data)]

\* The instance after the valid update form is applied to it.  keep: whether
\* an omitted description leaves the instance's value (the field has an
\* explicit default) or clears it.
UpdateFormInstance(obj, data, keep) ==
    [obj EXCEPT !.title = CleanText(data.title),
                !.description =
                    IF ~data.description.present /\ keep THEN @
                    ELSE CleanText(data.description),
                !.due_date = CleanDueDate(data),
                !.resolved = CleanResolved(data)]

\* get_object_or_404 / SingleObjectMixin.get_object: is there such a row.
ObjectExists(pk) == pk \in DOMAIN todos

\* Variant: the toggle marks the todo resolved instead of negating the flag.
Toggled_SetTrue(obj) == [obj EXCEPT !.resolved = TRUE]

\* toggle_resolved: todo.resolved = not todo.resolved
Toggled(obj) == [obj EXCEPT !.resolved = ~@]

\* Model.save() of an instance with primary key pk: UPDATE every column of the
\* row; when no row has that key, INSERT one (created_at is set on insert).
Save(store, pk, obj, now) ==
    IF pk \in DOMAIN store
    THEN [store EXCEPT ![pk] = obj]
    ELSE [id \in DOMAIN store \cup {pk} |->
            IF id = pk THEN [obj EXCEPT !.created_at = now] ELSE store[id]]

\* Whether that save had to insert.
SaveInserts(store, pk) == pk \notin DOMAIN store

\* Model.delete(): DELETE the row with that key, if any.
Delete(store, pk) == [id \in DOMAIN store \ {pk} |-> store[id]]

\* Todo.Meta.ordering = ['-created_at'] applied to a set of rows: the keys,
\* latest created_at first.
RECURSIVE OrderByCreatedDesc(_, _)
OrderByCreatedDesc(store, ids) ==
    IF ids = {} THEN <<>>
    ELSE LET top == CHOOSE i \in ids :
                        \A j \in ids : store[j].created_at <= store[i].created_at
         IN  <<top>> \o OrderByCreatedDesc(store, ids \ {top})

\* Variant: the list view reverses the model's ordering (oldest first).
TodoListView_OldestFirst ==
    LET l == OrderByCreatedDesc(todos, DOMAIN todos)
    IN  [i \in 1..Len(l) |-> l[Len(l) + 1 - i]]

\* TodoListView: the 'todos' of the context, Todo.objects.all().
TodoListView == OrderByCreatedDesc(todos, DOMAIN todos)

Response(op, pk, data, status, location, result) ==
    [op |-> op, pk |-> pk, data |-> data, status |-> status,
     location |-> location, result |-> result]

Idle == [pc |-> "idle", pk |-> 0, obj |-> NoTodo]

ConcUnchanged == UNCHANGED <<inflight, expected, touched, deleted>>

\* ------------------------------------------------------------------ Init

Init ==
    /\ todos = <<>>
    /\ nextId = 1
    /\ clock = 0
    /\ last = Response("none", 0, NoData, 0, "", <<>>)
    /\ created = <<>>
    /\ inflight = [w \in 1..NumWorkers |-> Idle]
    /\ expected = {}
    /\ touched = {}
    /\ deleted = {}

\* ------------------------------------------- the handlers, one per request

\* GET /: the list page.
TodoListView_get ==
    /\ last' = Response("list", 0, NoData, 200, "", TodoListView)
    /\ UNCHANGED <<todos, nextId, clock, created>>
    /\ ConcUnchanged

\* GET create: the empty form.
TodoCreateView_get ==
    /\ last' = Response("create_get", 0, NoData, 200, "", <<>>)
    /\ UNCHANGED <<todos, nextId, clock, created>>
    /\ ConcUnchanged

\* Variant: an invalid create form is answered with the redirect.
TodoCreateView_post_RedirectInvalid(data) ==
    /\ IF CreateFormValid(data)
       THEN /\ clock < MaxInserts
            /\ todos' = Save(todos, nextId, CreateFormInstance(data), clock + 1)
            /\ nextId' = nextId + 1
            /\ clock' = clock + 1
            /\ created' = Append(created, nextId)
            /\ last' = Response("create_post", 0, data, 302, "todo_list", <<>>)
       ELSE /\ last' = Response("create_post", 0, data, 302, "todo_list", <<>>)
            /\ UNCHANGED <<todos, nextId, clock, created>>
    /\ ConcUnchanged

\* POST create: invalid form -> 200 and nothing saved; valid -> INSERT, 302.
TodoCreateView_post(data) ==
    /\ IF CreateFormValid(data)
       THEN /\ clock < MaxInserts
            /\ todos' = Save(todos, nextId, CreateFormInstance(data), clock + 1)
            /\ nextId' = nextId + 1
            /\ clock' = clock + 1
            /\ created' = Append(created, nextId)
            /\ last' = Response("create_post", 0, data, 302, "todo_list", <<>>)
       ELSE /\ last' = Response("create_post", 0, data, 200, "", <<>>)
            /\ UNCHANGED <<todos, nextId, clock, created>>
    /\ ConcUnchanged

\* GET update: 404 without the row, else the filled form.
TodoUpdateView_get(pk) ==
    /\ last' = Response("update_get", pk, NoData,
                        IF ObjectExists(pk) THEN 200 ELSE 404, "", <<>>)
    /\ UNCHANGED <<todos, nextId, clock, created>>
    /\ ConcUnchanged

\* POST update: 404 without the row; invalid form -> 200; valid -> save, 302.
TodoUpdateView_post(pk, data) ==
    /\ IF ~ObjectExists(pk)
       THEN /\ last' = Response("update_post", pk, data, 404, "", <<>>)
            /\ UNCHANGED todos
       ELSE IF ~UpdateFormValid(data)
       THEN /\ last' = Response("update_post", pk, data, 200, "", <<>>)
            /\ UNCHANGED todos
       ELSE /\ \E keep \in DescriptionHasDefault :
                 todos' = Save(todos, pk,
                               UpdateFormInstance(todos[pk], data, keep), clock + 1)
            /\ last' = Response("update_post", pk, data, 302, "todo_list", <<>>)
    /\ UNCHANGED <<nextId, clock, created>>
    /\ ConcUnchanged

\* Variant: the delete view deletes on GET as well.
TodoDeleteView_get_Deletes(pk) ==
    /\ IF ~ObjectExists(pk)
       THEN /\ last' = Response("delete_get", pk, NoData, 404, "", <<>>)
            /\ UNCHANGED todos
       ELSE /\ todos' = Delete(todos, pk)
            /\ last' = Response("delete_get", pk, NoData, 200, "", <<>>)
    /\ UNCHANGED <<nextId, clock, created>>
    /\ ConcUnchanged

\* GET delete: 404 without the row, else the confirmation page.
TodoDeleteView_get(pk) ==
    /\ last' = Response("delete_get", pk, NoData,
                        IF ObjectExists(pk) THEN 200 ELSE 404, "", <<>>)
    /\ UNCHANGED <<todos, nextId, clock, created>>
    /\ ConcUnchanged

\* POST delete: 404 without the row, else delete it and redirect.
TodoDeleteView_post(pk) ==
    /\ IF ~ObjectExists(pk)
       THEN /\ last' = Response("delete_post", pk, NoData, 404, "", <<>>)
            /\ UNCHANGED todos
       ELSE /\ todos' = Delete(todos, pk)
            /\ last' = Response("delete_post", pk, NoData, 302, "todo_list", <<>>)
    /\ UNCHANGED <<nextId, clock, created>>
    /\ ConcUnchanged

\* Variant: the toggle view looks the todo up with get_or_create.
toggle_resolved_GetOrCreate(pk) ==
    /\ todos' = Save(todos, pk,
                     Toggled(IF ObjectExists(pk) THEN todos[pk] ELSE NewTodo), clock + 1)
    /\ last' = Response("toggle", pk, NoData, 302, "todo_list", <<>>)
    /\ UNCHANGED <<nextId, clock, created>>
    /\ ConcUnchanged

\* GET toggle: 404 without the row, else negate resolved, save, redirect.
toggle_resolved(pk) ==
    /\ IF ~ObjectExists(pk)
       THEN /\ last' = Response("toggle", pk, NoData, 404, "", <<>>)
            /\ UNCHANGED todos
       ELSE /\ todos' = Save(todos, pk, Toggled(todos[pk]), clock + 1)
            /\ last' = Response("toggle", pk, NoData, 302, "todo_list", <<>>)
    /\ UNCHANGED <<nextId, clock, created>>
    /\ ConcUnchanged

Next ==
    \/ TodoListView_get
    \/ TodoCreateView_get
    \/ \E data \in PostData : TodoCreateView_post(data)
    \/ \E pk \in Pks : TodoUpdateView_get(pk)
    \/ \E pk \in Pks, data \in PostData : TodoUpdateView_post(pk, data)
    \/ \E pk \in Pks : TodoDeleteView_get(pk)
    \/ \E pk \in Pks : TodoDeleteView_post(pk)
    \/ \E pk \in Pks : toggle_resolved(pk)

Spec == Init /\ [][Next]_vars

\* ------------------------------ ConcSpec: overlapping requests, step by step

Workers == 1..NumWorkers

\* POST bodies of the overlapping runs.
ConcCreateData == {Data(Field(<<"a">>), Omitted, OmittedToken, OmittedToken)}

ConcUpdateData ==
    {Data(Field(<<"b">>), Field(<<"d">>), OmittedToken, Field("False")),
     Data(Field(<<" ">>), Field(<<"d">>), OmittedToken, OmittedToken)}

InFlight(pc, pk, obj) == [pc |-> pc, pk |-> pk, obj |-> obj]

\* toggle_resolved, first statement: get_object_or_404 (SELECT).
toggle_resolved_get(w, pk) ==
    /\ inflight[w] = Idle
    /\ IF ~ObjectExists(pk)
       THEN /\ last' = Response("toggle", pk, NoData, 404, "", <<>>)
            /\ UNCHANGED inflight
       ELSE /\ inflight' = [inflight EXCEPT ![w] = InFlight("toggle_save", pk, todos[pk])]
            /\ UNCHANGED last
    /\ UNCHANGED <<todos, nextId, clock, created, expected, touched, deleted>>

\* toggle_resolved, the rest: negate the loaded object's flag, save() it, redirect.
toggle_resolved_save(w) ==
    LET r == inflight[w] IN
    /\ r.pc = "toggle_save"
    /\ SaveInserts(todos, r.pk) => clock < MaxInserts
    /\ todos' = Save(todos, r.pk, Toggled(r.obj), clock + 1)
    /\ clock' = IF SaveInserts(todos, r.pk) THEN clock + 1 ELSE clock
    /\ expected' = IF r.pk \in expected THEN expected \ {r.pk} ELSE expected \cup {r.pk}
    /\ inflight' = [inflight EXCEPT ![w] = Idle]
    /\ last' = Response("toggle", r.pk, NoData, 302, "todo_list", <<>>)
    /\ UNCHANGED <<nextId, created, touched, deleted>>

\* POST update, up to form validation: get_object (SELECT), then the form is
\* bound to the loaded object and validated in memory.
TodoUpdateView_post_get(w, pk, data) ==
    /\ inflight[w] = Idle
    /\ IF ~ObjectExists(pk)
       THEN /\ last' = Response("update_post", pk, data, 404, "", <<>>)
            /\ UNCHANGED <<inflight, touched>>
       ELSE IF ~UpdateFormValid(data)
       THEN /\ last' = Response("update_post", pk, data, 200, "", <<>>)
            /\ UNCHANGED <<inflight, touched>>
       ELSE /\ \E keep \in DescriptionHasDefault :
                 inflight' = [inflight EXCEPT ![w] =
                     InFlight("update_save", pk, UpdateFormInstance(todos[pk], data, keep))]
            /\ touched' = touched \cup {pk}
            /\ UNCHANGED last
    /\ UNCHANGED <<todos, nextId, clock, created, expected, deleted>>

\* POST update, form_valid: form.save() saves the object, then the redirect.
TodoUpdateView_post_save(w) ==
    LET r == inflight[w] IN
    /\ r.pc = "update_save"
    /\ SaveInserts(todos, r.pk) => clock < MaxInserts
    /\ todos' = Save(todos, r.pk, r.obj, clock + 1)
    /\ clock' = IF SaveInserts(todos, r.pk) THEN clock + 1 ELSE clock
    /\ inflight' = [inflight EXCEPT ![w] = Idle]
    /\ last' = Response("update_post", r.pk, NoData, 302, "todo_list", <<>>)
    /\ UNCHANGED <<nextId, created, expected, touched, deleted>>

\* POST delete, get_object (SELECT).
TodoDeleteView_post_get(w, pk) ==
    /\ inflight[w] = Idle
    /\ IF ~ObjectExists(pk)
       THEN /\ last' = Response("delete_post", pk, NoData, 404, "", <<>>)
            /\ UNCHANGED <<inflight, touched>>
       ELSE /\ inflight' = [inflight EXCEPT ![w] = InFlight("delete_exec", pk, todos[pk])]
            /\ touched' = touched \cup {pk}
            /\ UNCHANGED last
    /\ UNCHANGED <<todos, nextId, clock, created, expected, deleted>>

\* POST delete, the rest: object.delete(), then the redirect.
TodoDeleteView_post_delete(w) ==
    LET r == inflight[w] IN
    /\ r.pc = "delete_exec"
    /\ todos' = Delete(todos, r.pk)
    /\ deleted' = deleted \cup {r.pk}
    /\ inflight' = [inflight EXCEPT ![w] = Idle]
    /\ last' = Response("delete_post", r.pk, NoData, 302, "todo_list", <<>>)
    /\ UNCHANGED <<nextId, clock, created, expected, touched>>

ConcNext ==
    \/ \E data \in ConcCreateData : TodoCreateView_post(data)
    \/ \E w \in Workers, pk \in Pks : toggle_resolved_get(w, pk)
    \/ \E w \in Workers : toggle_resolved_save(w)
    \/ \E w \in Workers, pk \in Pks, data \in ConcUpdateData :
            TodoUpdateView_post_get(w, pk, data)
    \/ \E w \in Workers : TodoUpdateView_post_save(w)
    \/ \E w \in Workers, pk \in Pks : TodoDeleteView_post_get(w, pk)
    \/ \E w \in Workers : TodoDeleteView_post_delete(w)

ConcSpec == Init /\ [][ConcNext]_vars

\* ---------------------------------------------------------------- claims

Existing(pk) == pk \in DOMAIN todos

\* Every row other than pk is still there, unchanged.
OthersKept(pk) ==
    \A id \in DOMAIN todos \ {pk} : id \in DOMAIN todos' /\ todos'[id] = todos[id]

\* The request just served is an op request.
Served(op) == last'.op = op

HasNonSpace(s) == \E i \in 1..Len(s) : s[i] # " "

AcceptedDate(f) == ~f.present \/ f.value \in {"", "2025-01-05", "01/05/2025"}

\* The data a form accepts, stated on the submitted text.
Acceptable(data) ==
    /\ data.title.present
    /\ HasNonSpace(data.title.value)
    /\ Len(Strip(data.title.value)) <= TitleMaxLength
    /\ AcceptedDate(data.due_date)

\* The stored keys in the reverse of the order the create view made them.
RECURSIVE NewestFirst(_)
NewestFirst(seq) ==
    IF seq = <<>> THEN <<>>
    ELSE LET rest == NewestFirst(SubSeq(seq, 1, Len(seq) - 1))
             id == seq[Len(seq)]
         IN  IF id \in DOMAIN todos THEN <<id>> \o rest ELSE rest

\* C1: in every state reached by the HTTP operations from the empty store,
\* every stored Todo has a non-empty title.
C1_NonEmptyTitle ==
    \A id \in DOMAIN todos : todos[id].title # <<>>

\* A blank title was just refused by the update form of a stored Todo, after a
\* create had stored one.
C1_Witness ==
    /\ last.op = "update_post" /\ last.status = 200
    /\ last.data.title.present /\ last.data.title.value = <<" ">>
    /\ last.pk \in DOMAIN todos
    /\ Cardinality(DOMAIN todos) = 2

\* C2: a create POST whose data has no title is answered 200 (no redirect) and
\* leaves the set of stored Todos exactly as it was.
C2_CreateWithoutTitleRejected ==
    [][(Served("create_post") /\ ~last'.data.title.present)
          => (last'.status = 200 /\ last'.location = "" /\ todos' = todos)]_vars

\* A create POST carrying only a description was answered with a non-empty store.
C2_Witness ==
    /\ last.op = "create_post" /\ last.status = 200
    /\ ~last.data.title.present /\ last.data.description.present
    /\ DOMAIN todos # {}

\* What C3 says of the Todo a create POST adds, title being the title it carries.
CreateAdds(data, title) ==
    /\ last'.status = 302
    /\ \E id \in DOMAIN todos' \ DOMAIN todos :
          /\ DOMAIN todos' = DOMAIN todos \cup {id}
          /\ todos'[id].title = title
          /\ todos'[id].resolved = FALSE
          /\ ~data.description.present => todos'[id].description = <<>>
          /\ ~data.due_date.present => todos'[id].due_date = Null
    /\ OthersKept(0)

\* C3 as stated: a create POST with a non-empty title answers 302 and adds
\* exactly one new, unresolved Todo carrying the submitted title, with empty
\* description and null due_date when none was submitted, all else unchanged.
C3_Original ==
    [][(Served("create_post") /\ last'.data.title.present
            /\ last'.data.title.value # <<>>)
          => CreateAdds(last'.data, last'.data.title.value)]_vars

\* C3 amended: a create POST whose data the form accepts (a title with a
\* non-blank character that fits the maximum length once stripped, a due_date
\* absent, empty or in an accepted format) answers 302 and adds exactly one
\* new, unresolved Todo carrying the stripped title, with empty description
\* and null due_date when none was submitted, all else unchanged.
C3_CreateAcceptedData ==
    [][(Served("create_post") /\ Acceptable(last'.data))
          => CreateAdds(last'.data, Strip(last'.data.title.value))]_vars

\* A second Todo was just created from a padded title and a resolved=True
\* field, and is stored stripped and unresolved.
C3_Witness ==
    /\ last.op = "create_post" /\ last.status = 302
    /\ last.data.title.value = <<" ", "b">> /\ last.data.resolved.present
    /\ Cardinality(DOMAIN todos) = 2
    /\ \E id \in DOMAIN todos : todos[id].title = <<"b">> /\ ~todos[id].resolved

\* C4: a toggle GET for an existing Todo negates its resolved flag and answers
\* with a 302 redirect to the list; its other fields and its place in the
\* list, every other Todo and the set of Todos are unchanged.
C4_ToggleFlipsOnlyResolved ==
    [][(Served("toggle") /\ Existing(last'.pk))
          => /\ last'.status = 302 /\ last'.location = "todo_list"
             /\ DOMAIN todos' = DOMAIN todos
             /\ todos'[last'.pk] =
                   [todos[last'.pk] EXCEPT !.resolved = ~todos[last'.pk].resolved]
             /\ OthersKept(last'.pk)
             /\ TodoListView' = TodoListView]_vars

\* A resolved Todo was just toggled back to unresolved beside another Todo.
C4_Witness ==
    /\ last.op = "toggle" /\ last.status = 302
    /\ last.pk \in DOMAIN todos /\ ~todos[last.pk].resolved
    /\ todos[last.pk].title = <<"a">> /\ todos[last.pk].due_date # Null
    /\ Cardinality(DOMAIN todos) = 2

\* C5: a delete GET or POST, update GET or POST, or toggle GET for an id not
\* in the store answers 404 and leaves the store unchanged.
C5_MissingIdNotFound ==
    [][(last'.op \in {"delete_get", "delete_post", "update_get", "update_post", "toggle"}
            /\ ~Existing(last'.pk))
          => (last'.status = 404 /\ todos' = todos)]_vars

\* A toggle of an id that was deleted earlier was just answered 404, the other
\* Todo still stored.
C5_Witness ==
    /\ last.op = "toggle" /\ last.status = 404
    /\ last.pk < nextId /\ last.pk \notin DOMAIN todos
    /\ DOMAIN todos # {}

\* C6: the list holds every stored Todo exactly once, newest created first;
\* the order depends only on the order of creation, whatever updates and
\* toggles came later.
C6_ListNewestFirst ==
    /\ TodoListView = NewestFirst(created)
    /\ Len(TodoListView) = Cardinality(DOMAIN todos)
    /\ {TodoListView[i] : i \in 1..Len(TodoListView)} = DOMAIN todos
    /\ last.op = "list" => last.result = NewestFirst(created)

\* The list was just served with two Todos, the older one updated and resolved
\* after it was created.
C6_Witness ==
    /\ last.op = "list" /\ last.result = <<2, 1>>
    /\ todos[1].title = <<"b">> /\ todos[1].resolved
    /\ todos[2].title = <<"a">>

\* C7: a delete GET for an existing Todo answers 200 and removes nothing; a
\* delete POST for an existing Todo answers 302, removes exactly that Todo and
\* leaves every other Todo unchanged.
C7_DeleteTwoSteps ==
    [][/\ (Served("delete_get") /\ Existing(last'.pk))
             => (last'.status = 200 /\ todos' = todos)
       /\ (Served("delete_post") /\ Existing(last'.pk))
             => /\ last'.status = 302
                /\ DOMAIN todos' = DOMAIN todos \ {last'.pk}
                /\ OthersKept(last'.pk)]_vars

\* One of two Todos was just deleted by POST; the other is still stored.
C7_Witness ==
    /\ last.op = "delete_post" /\ last.status = 302
    /\ last.pk \notin DOMAIN todos
    /\ Cardinality(DOMAIN todos) = 1

\* What C8 says of a refused update: 200 and nothing changed.
UpdateRefused == last'.status = 200 /\ todos' = todos

\* What C8 says of an accepted update, title and description being the values
\* the Todo is to carry.
UpdateSets(data, title, description) ==
    /\ last'.status = 302
    /\ DOMAIN todos' = DOMAIN todos
    /\ todos'[last'.pk].title = title
    /\ data.description.present => todos'[last'.pk].description = description
    /\ todos'[last'.pk].due_date = CleanDueDate(data)
    /\ todos'[last'.pk].resolved = (data.resolved.present /\ data.resolved.value = "True")
    /\ todos'[last'.pk].created_at = todos[last'.pk].created_at
    /\ OthersKept(last'.pk)

\* C8 as stated: an update POST for an existing Todo with a non-empty title
\* answers 302 and sets title, description, due_date and resolved to the
\* submitted values; with a missing or empty title it answers 200 and leaves
\* every Todo unchanged.
C8_Original ==
    [][(Served("update_post") /\ Existing(last'.pk))
          => IF last'.data.title.present /\ last'.data.title.value # <<>>
             THEN UpdateSets(last'.data, last'.data.title.value,
                             last'.data.description.value)
             ELSE UpdateRefused]_vars

\* C8 amended: an update POST for an existing Todo whose data the form accepts
\* answers 302 and sets title and description to the submitted values stripped
\* of surrounding whitespace, due_date to the submitted date (null when absent
\* or empty) and resolved to whether it was submitted as true; with a title
\* missing or blank (empty once stripped) it answers 200 and leaves every Todo
\* unchanged.
C8_UpdateAcceptedData ==
    [][(Served("update_post") /\ Existing(last'.pk))
          => /\ Acceptable(last'.data)
                  => UpdateSets(last'.data, Strip(last'.data.title.value),
                                Strip(last'.data.description.value))
             /\ (~last'.data.title.present \/ ~HasNonSpace(last'.data.title.value))
                  => UpdateRefused]_vars

\* A Todo created unresolved with title a was just updated to title a, a
\* stripped description, a due date and resolved, beside another Todo.
C8_Witness ==
    /\ last.op = "update_post" /\ last.status = 302
    /\ last.data.description.present
    /\ last.data.description.value = <<" ", "d">>
    /\ last.pk \in DOMAIN todos
    /\ todos[last.pk].description = <<"d">> /\ todos[last.pk].resolved
    /\ todos[last.pk].due_date = "2025-01-05"
    /\ Cardinality(DOMAIN todos) = 2

\* No worker is in the middle of a request for id.
Quiet(id) == \A w \in Workers : inflight[w].pk # id

\* C9: when toggle requests for a Todo have all completed, overlapping or not,
\* and no other request touched it, its resolved flag is its initial value
\* (false at creation) negated once per completed toggle.
C9_EveryToggleTakesEffect ==
    \A id \in DOMAIN todos :
        (Quiet(id) /\ id \notin touched) => (todos[id].resolved = (id \in expected))

\* C10: once a delete POST for a Todo has completed, no Todo with that id is
\* in the store again.
C10_DeletionIsFinal ==
    \A id \in deleted : id \notin DOMAIN todos

====
